---- MODULE Spec2Model ----
(***************************************************************************)
(* Model of the routing engine of trainvisualizer (src/routing/routing.py  *)
(* and src/routing/loading.py): GTFS ingest, the time-expanded graph, the  *)
(* earliest-arrival search and the reconstruction of the journey.          *)
(*                                                                         *)
(* Text fields of the CSV files are modelled by their parsed shape:        *)
(*   - a time text "H:M:S" is the tuple <<H, M, S>>; the empty text, "nan" *)
(*     and every text without three numeric fields is the tuple <<>>;      *)
(*   - a stop_sequence text is <<n>> for the numeral n and <<>> for a text *)
(*     int() rejects;                                                      *)
(*   - a date text is the sequence of its pieces, "-" being a piece.       *)
(***************************************************************************)
EXTENDS Integers, Sequences, FiniteSets, TLC

VARIABLES
    data_dir,            \* the data_dir argument of getRoute
    stops_csv,           \* data_dir/stops.csv: the stop_ids of its rows
    stop_times_csv,      \* data_dir/stop_times.csv: its rows, in file order
    files,               \* the names of the CSV files that exist in data_dir
    default_calendar,    \* whether public/data/calendar_dates.csv exists
    origin_id,           \* arguments of the call
    dest_id,
    start_time,
    date,
    pc,                  \* position of the call inside compute_route
    G,                   \* the graph of the call (nodes in insertion order, edges)
    stop_departures,     \* the per-stop outbound index of the call
    path,                \* the node sequence chosen by the search
    result,              \* what getRoute returns
    seconds,             \* the argument of a call of seconds_to_time, or None
    time_string,         \* a time string, as its three fields of decimal digits
    parsed               \* what parse_time_to_seconds returned for time_string

vars == <<data_dir, stops_csv, stop_times_csv, files, default_calendar,
          origin_id, dest_id, start_time, date, pc, G, stop_departures, path, result,
          seconds, time_string, parsed>>

feed == <<data_dir, stops_csv, stop_times_csv, files, default_calendar>>
query == <<origin_id, dest_id, start_time, date>>
clock == <<seconds, time_string, parsed>>

----------------------------------------------------------------------------
(* Python values *)

\* None, as returned by parse_time_to_seconds and find_earliest_arrival_path
None == -1

DATA_DIR_DEFAULT == "public/data"

\* Stable insertion sort of a sequence of pairs <<item, key>> by the key
\* (list.sort(key=...) is stable)
RECURSIVE SortedInsert(_, _)
SortedInsert(s, x) ==
    IF s = <<>> THEN <<x>>
    ELSE IF s[Len(s)][2] <= x[2] THEN Append(s, x)
    ELSE Append(SortedInsert(SubSeq(s, 1, Len(s) - 1), x), s[Len(s)])

RECURSIVE SortByKey(_)
SortByKey(s) ==
    IF s = <<>> THEN <<>>
    ELSE SortedInsert(SortByKey(SubSeq(s, 1, Len(s) - 1)), s[Len(s)])

Range(s) == {s[i] : i \in 1..Len(s)}

----------------------------------------------------------------------------
(* Time texts *)

\* datetime.strptime(t.strip(), "%H:%M:%S"): three fields, hour 0..23,
\* minute and second 0..59; anything else is a ValueError, hence None
parse_time_to_seconds(t) ==
    IF Len(t) # 3 THEN None
    ELSE IF t[1] \in 0..23 /\ t[2] \in 0..59 /\ t[3] \in 0..59
         THEN t[1] * 3600 + t[2] * 60 + t[3]
         ELSE None

\* str(time(h, m, s)); time() raises ValueError when h > 23
\* The minutes taken from all the seconds, the hours not taken off
seconds_to_time_minutes(secs) ==
    <<secs \div 3600, secs \div 60, secs % 60>>

seconds_to_time(secs) ==
    <<secs \div 3600, (secs % 3600) \div 60, secs % 60>>

seconds_to_time_raises(secs) == secs \div 3600 > 23 \/ secs < 0

\* The characters of a time string: its three fields between the colons, each
\* a sequence of decimal digits
Padded2(n) == <<n \div 10, n % 10>>

\* str(time(h, m, s)) is time.isoformat(): "%02d:%02d:%02d"
isoformat(t) == <<Padded2(t[1]), Padded2(t[2]), Padded2(t[3])>>

\* The number a field of one or two digits denotes
FieldValue(ds) == IF Len(ds) = 1 THEN ds[1] ELSE ds[1] * 10 + ds[2]

\* The fields strptime reads with "%H:%M:%S": one or two digits each; a text
\* of another shape is <<>> (ValueError)
TimeFields(txt) ==
    IF Len(txt) = 3 /\ \A i \in 1..3 : Len(txt[i]) \in 1..2
    THEN <<FieldValue(txt[1]), FieldValue(txt[2]), FieldValue(txt[3])>>
    ELSE <<>>

----------------------------------------------------------------------------
(* The feed: contents of the CSV files *)

\* Feed A is the feed with the four stops A, B, C, D
FeedAStops == {"A", "B", "C", "D"}

\* trips.csv: trip_id -> route_id, service_id. T1 runs on service S1 and T2
\* on service S2, except in Feed A, where both trips run on service S1
trips_csv ==
    [t \in {"T1", "T2"} |->
        IF t = "T1" THEN [route_id |-> "R1", service_id |-> "S1"]
        ELSE [route_id |-> "R2",
              service_id |-> IF stops_csv = FeedAStops THEN "S1" ELSE "S2"]]

\* routes.csv: route_id -> route_short_name
routes_csv == [r \in {"R1", "R2"} |-> IF r = "R1" THEN "Red" ELSE "Blue"]

\* calendar_dates.csv: rows service_id, date, exception_type
calendar_dates_csv ==
    << [service_id |-> "S1", date |-> <<"2025", "01", "01">>, exception_type |-> "1"],
       [service_id |-> "S2", date |-> <<"2025", "01", "01">>, exception_type |-> "1"],
       [service_id |-> "S2", date |-> <<"2025", "01", "02">>, exception_type |-> "1"],
       [service_id |-> "S1", date |-> <<"2025", "01", "02">>, exception_type |-> "2"] >>

----------------------------------------------------------------------------
(* loading.py *)

\* load_stops: the catalogue; open() raises when the file is missing
load_stops_raises(fs) == "stops.csv" \notin fs
load_stops(csv) == csv

\* int(r.get("stop_sequence", 0)) raises ValueError on a non-numeral text
int_raises(txt) == Len(txt) # 1
int(txt) == txt[1]

\* The trip_ids of stop_times.csv in order of first appearance (dict order)
AddTripId(before, t) == IF t \in Range(before) THEN before ELSE Append(before, t)

RECURSIVE TripOrder(_)
TripOrder(rows) ==
    IF rows = <<>> THEN <<>>
    ELSE AddTripId(TripOrder(SubSeq(rows, 1, Len(rows) - 1)), rows[Len(rows)].trip_id)

RowsOf(rows, t) == SelectSeq(rows, LAMBDA r : r.trip_id = t)

load_stop_times_by_trip_raises(fs, rows) ==
    \/ "stop_times.csv" \notin fs
    \/ \E i \in 1..Len(rows) : int_raises(rows[i].stop_sequence)

WithSequence(rs) == [i \in 1..Len(rs) |-> <<rs[i], int(rs[i].stop_sequence)>>]

Firsts(k) == [i \in 1..Len(k) |-> k[i][1]]

\* trips[trip_id].sort(key=lambda r: int(r.get("stop_sequence", 0)))
SortedRows(rows, t) == Firsts(SortByKey(WithSequence(RowsOf(rows, t))))

GroupByTrip(rows, order) ==
    [i \in 1..Len(order) |->
        [trip_id |-> order[i], stop_sequence |-> SortedRows(rows, order[i])]]

\* load_stop_times_by_trip: trip_id -> rows sorted by int(stop_sequence),
\* as a sequence of [trip_id, stop_sequence (the rows)] in dict order
load_stop_times_by_trip(rows) == GroupByTrip(rows, TripOrder(rows))

\* load_routes_info: FileNotFoundError is swallowed, the map is then empty
load_routes_info(fs) ==
    IF "routes.csv" \in fs THEN routes_csv ELSE <<>>

\* load_trips_info: FileNotFoundError is swallowed, the map is then empty
load_trips_info(fs) ==
    IF "trips.csv" \in fs THEN trips_csv ELSE <<>>

\* load_calendar_dates: service_id -> dates of the rows with exception_type "1";
\* FileNotFoundError is swallowed, the map is then empty
load_calendar_dates(exists) ==
    IF exists
    THEN LET added == SelectSeq(calendar_dates_csv, LAMBDA r : r.exception_type = "1")
         IN  [s \in {added[i].service_id : i \in 1..Len(added)} |->
                 {added[i].date : i \in {j \in 1..Len(added) : added[j].service_id = s}}]
    ELSE <<>>

----------------------------------------------------------------------------
(* routing.py: build_transit_graph *)

\* dict.get(key, default); the empty map is <<>>
Get(map, key, default) == IF key \in DOMAIN map THEN map[key] ELSE default

transfer_penalty == 600

MAX_TRANSFERS_PER_ARRIVAL == 2

\* 24 * 3600: nodes departing later than this after the start are left out
HORIZON == 86400

\* The calendar is read from DATA_DIR_DEFAULT, whatever data_dir is
active_service_ids(default_cal, d) ==
    LET service_dates == load_calendar_dates(default_cal)
    IN  {sid \in DOMAIN service_dates : d \in service_dates[sid]}

date_relevant_trips(trips, trip_routes, active) ==
    SelectSeq(trips, LAMBDA t :
        /\ t.trip_id \in DOMAIN trip_routes
        /\ trip_routes[t.trip_id].service_id \in active)

\* "parse(dep) and parse(dep) >= start_time_secs": None and 0 are both falsy
has_relevant_departure(t, start_time_secs) ==
    \E i \in 1..Len(t.stop_sequence) :
        LET dep == parse_time_to_seconds(t.stop_sequence[i].departure_time)
        IN  dep # None /\ dep # 0 /\ dep >= start_time_secs

relevant_trips(trips, trip_routes, active, start_time_secs) ==
    SelectSeq(date_relevant_trips(trips, trip_routes, active),
              LAMBDA t : has_relevant_departure(t, start_time_secs))

\* The node of row idx (0-based) of a trip, with the attributes the code reads back
Node(t, idx, routes, trip_routes) ==
    LET row == t.stop_sequence[idx + 1]
        route_id == IF t.trip_id \in DOMAIN trip_routes
                    THEN trip_routes[t.trip_id].route_id ELSE ""
    IN  [stop_id |-> row.stop_id,
         trip_id |-> t.trip_id,
         stop_sequence |-> idx,
         arrival_time |-> parse_time_to_seconds(row.arrival_time),
         departure_time |-> parse_time_to_seconds(row.departure_time),
         route_id |-> route_id,
         route_name |-> Get(routes, route_id, route_id)]

\* A row gets a node when both times parse and it departs within the horizon
RowEmitted(row, start_time_secs) ==
    LET arrival_secs == parse_time_to_seconds(row.arrival_time)
        departure_secs == parse_time_to_seconds(row.departure_time)
    IN  /\ arrival_secs # None
        /\ departure_secs # None
        /\ ~(departure_secs > start_time_secs + HORIZON)

\* In-vehicle edge from the previous node of the trip (prev_node_id) when
\* arrival_secs - prev_arrival_time >= 0; prev_arrival_time holds the previous
\* node's departure
InVehicleEdge(prev, node) ==
    LET travel_time == node.arrival_time - prev.departure_time
    IN  IF travel_time >= 0
        THEN {[from |-> prev, to |-> node, weight |-> travel_time, edge_type |-> "in_vehicle"]}
        ELSE {}

\* G.add_node, stop_departures[stop_id].append, the in-vehicle edge, and
\* prev_node_id = node_id
EmitNode(acc, node) ==
    [nodes |-> Append(acc.nodes, node),
     edges |-> acc.edges \cup
               (IF acc.prev = <<>> THEN {} ELSE InVehicleEdge(acc.prev[1], node)),
     prev |-> <<node>>]

\* One turn of the loop over a trip's rows, for the row at idx (0-based).
\* acc.prev is <<>> (prev_node_id is None) or <<node>>; a skipped row
\* ("continue") leaves everything as it is, prev included
WalkRow(acc, t, idx, routes, trip_routes, start_time_secs) ==
    IF ~RowEmitted(t.stop_sequence[idx + 1], start_time_secs) THEN acc
    ELSE EmitNode(acc, Node(t, idx, routes, trip_routes))

\* The loop over one trip's rows
WalkTrip(t, routes, trip_routes, start_time_secs) ==
    LET walk[k \in 0..Len(t.stop_sequence)] ==
            IF k = 0 THEN [nodes |-> <<>>, edges |-> {}, prev |-> <<>>]
            ELSE WalkRow(walk[k - 1], t, k - 1, routes, trip_routes, start_time_secs)
    IN  walk[Len(t.stop_sequence)]

AddTrip(all, w) ==
    [nodes |-> all.nodes \o w.nodes, edges |-> all.edges \cup w.edges]

\* The loop over the relevant trips: nodes in insertion order, in-vehicle edges
WalkTrips(rel, routes, trip_routes, start_time_secs) ==
    LET all[k \in 0..Len(rel)] ==
            IF k = 0 THEN [nodes |-> <<>>, edges |-> {}]
            ELSE AddTrip(all[k - 1], WalkTrip(rel[k], routes, trip_routes, start_time_secs))
    IN  all[Len(rel)]

\* stop_departures[stop_id].append(...) raises KeyError for a stop that is
\* not in the catalogue
build_transit_graph_raises(stops, nodes) ==
    \E i \in 1..Len(nodes) : nodes[i].stop_id \notin stops

NodesAt(nodes, stop_id) == SelectSeq(nodes, LAMBDA n : n.stop_id = stop_id)

WithDeparture(at) == [i \in 1..Len(at) |-> <<at[i], at[i].departure_time>>]

\* departures.sort(key=lambda x: x[1]): the stop's nodes by departure time
SortedDepartures(nodes, stop_id) ==
    Firsts(SortByKey(WithDeparture(NodesAt(nodes, stop_id))))

\* The inner loop's turn without "if from_trip != to_trip"
ScanTransferAnyTrip(acc, from_node, to_node) ==
    IF acc.transfers_added >= 2 THEN acc
    ELSE IF to_node.departure_time - from_node.arrival_time >= 0
    THEN [edges |-> acc.edges \cup
                    {[from |-> from_node, to |-> to_node,
                      weight |-> (to_node.departure_time - from_node.arrival_time)
                                 + transfer_penalty,
                      edge_type |-> "transfer"]},
          transfers_added |-> acc.transfers_added + 1]
    ELSE acc

\* One turn of the inner loop: from_node against to_node = departures[j]
ScanTransfer(acc, from_node, to_node) ==
    IF acc.transfers_added >= 2 THEN acc
    ELSE IF /\ from_node.trip_id # to_node.trip_id
            /\ to_node.departure_time - from_node.arrival_time >= 0
    THEN [edges |-> acc.edges \cup
                    {[from |-> from_node, to |-> to_node,
                      weight |-> (to_node.departure_time - from_node.arrival_time)
                                 + transfer_penalty,
                      edge_type |-> "transfer"]},
          transfers_added |-> acc.transfers_added + 1]
    ELSE acc

\* The scan not cut short: up to the end of the stop's list
LastScannedToEnd(i, len) == len

\* min(i + 1 + MAX_TRANSFERS_PER_ARRIVAL, len(departures)) - 1, 1-based
LastScanned(i, len) ==
    IF i + MAX_TRANSFERS_PER_ARRIVAL < len THEN i + MAX_TRANSFERS_PER_ARRIVAL ELSE len

\* The inner loop over j for the from_node at position i of a stop's list
TransferEdgesFrom(departures, i) ==
    LET scan[j \in i..LastScanned(i, Len(departures))] ==
            IF j = i THEN [edges |-> {}, transfers_added |-> 0]
            ELSE ScanTransfer(scan[j - 1], departures[i], departures[j])
    IN  scan[LastScanned(i, Len(departures))].edges

TransferEdges(departures) ==
    UNION {TransferEdgesFrom(departures, i) : i \in 1..Len(departures)}

AllTransferEdges(deps) == UNION {TransferEdges(deps[s]) : s \in DOMAIN deps}

StopDepartures(stops, nodes) == [s \in stops |-> SortedDepartures(nodes, s)]

Assemble(stops, w, deps) ==
    [G |-> [built |-> TRUE,
            nodes |-> w.nodes,
            edges |-> w.edges \cup AllTransferEdges(deps)],
     stop_departures |-> deps,
     raises |-> build_transit_graph_raises(stops, w.nodes)]

WithIndex(stops, w) == Assemble(stops, w, StopDepartures(stops, w.nodes))

\* build_transit_graph: the graph and the per-stop outbound index
build_transit_graph(stops, trips, routes, trip_routes, start_time_secs, d, default_cal) ==
    WithIndex(stops,
              WalkTrips(relevant_trips(trips, trip_routes,
                                       active_service_ids(default_cal, d),
                                       start_time_secs),
                        routes, trip_routes, start_time_secs))

----------------------------------------------------------------------------
(* routing.py: find_earliest_arrival_path *)

\* At most this many start nodes are searched from
MAX_STARTS == 10

\* The simple paths of the graph that extend p
RECURSIVE PathsFrom(_, _)
PathsFrom(edges, p) ==
    {p} \cup UNION {PathsFrom(edges, Append(p, e.to)) :
                      e \in {x \in edges : x.from = p[Len(p)] /\ x.to \notin Range(p)}}

EdgeWeight(edges, a, b) == (CHOOSE e \in edges : e.from = a /\ e.to = b).weight

PathWeight(edges, p) ==
    LET sum[k \in 1..Len(p)] ==
            IF k = 1 THEN 0 ELSE sum[k - 1] + EdgeWeight(edges, p[k - 1], p[k])
    IN  sum[Len(p)]

Ends(paths) == {p[Len(p)] : p \in paths}

\* nx.single_source_dijkstra(G, start_node): lengths holds the nodes reachable
\* from start_node, paths[n] a path of least total weight to n. Which of several
\* least-weight paths the library keeps is not modelled: all of them are allowed
Lengths(edges, start_node) == Ends(PathsFrom(edges, <<start_node>>))

MinWeight(edges, to) ==
    CHOOSE w \in {PathWeight(edges, p) : p \in to} :
        \A p \in to : w <= PathWeight(edges, p)

LeastWeight(edges, to, w) == {p \in to : PathWeight(edges, p) = w}

PathsTo(paths, target) == {p \in paths : p[Len(p)] = target}

Lightest(edges, to) == LeastWeight(edges, to, MinWeight(edges, to))

ShortestPaths(edges, start_node, target) ==
    Lightest(edges, PathsTo(PathsFrom(edges, <<start_node>>), target))

valid_starts(deps, origin, start_time_secs) ==
    SelectSeq(Get(deps, origin, <<>>), LAMBDA n : n.departure_time >= start_time_secs)

dest_nodes(deps, dest) == Get(deps, dest, <<>>)

\* The comparison turned round: a strictly later arrival replaces the best
ImprovesLater(arrival_time, best_arrival_time) == arrival_time > best_arrival_time

\* "if arrival_time < best_arrival_time": a strictly earlier arrival replaces the best
Improves(arrival_time, best_arrival_time) == arrival_time < best_arrival_time

\* One turn of the loop over dest_nodes. best is <<>> (best_path is None) or
\* <<start_node, dest_node>>, the ends of best_path
TryDest(best, start_node, dest_node, lengths) ==
    IF /\ dest_node \in lengths
       /\ (best = <<>> \/ Improves(dest_node.arrival_time, best[2].arrival_time))
    THEN <<start_node, dest_node>>
    ELSE best

\* One turn of the loop over the start nodes: the loop over dest_nodes
TryStart(best0, start_node, dests, lengths) ==
    LET scan[j \in 0..Len(dests)] ==
            IF j = 0 THEN best0 ELSE TryDest(scan[j - 1], start_node, dests[j], lengths)
    IN  scan[Len(dests)]

\* Every valid start is tried
all_starts_to_try(starts) == Len(starts)

\* min(10, len(valid_starts))
max_starts_to_try(starts) == IF MAX_STARTS < Len(starts) THEN MAX_STARTS ELSE Len(starts)

\* The loop over valid_starts[:max_starts_to_try]
BestPair(edges, starts, dests) ==
    LET outer[i \in 0..max_starts_to_try(starts)] ==
            IF i = 0 THEN <<>>
            ELSE TryStart(outer[i - 1], starts[i], dests, Lengths(edges, starts[i]))
    IN  outer[max_starts_to_try(starts)]

PathsOf(edges, best) ==
    IF best = <<>> THEN {} ELSE ShortestPaths(edges, best[1], best[2])

Search(edges, starts, dests) ==
    IF starts = <<>> THEN {}
    ELSE IF dests = <<>> THEN {}
    ELSE PathsOf(edges, BestPair(edges, starts, dests))

\* find_earliest_arrival_path: the set of paths it may return; {} stands for None
find_earliest_arrival_path(g, deps, origin, dest, start_time_secs) ==
    Search(g.edges, valid_starts(deps, origin, start_time_secs), dest_nodes(deps, dest))

----------------------------------------------------------------------------
(* routing.py: path_to_detailed_route *)

\* The stripping without its test of the trips: the first node is dropped
\* whenever the first hop stays at its stop
StripOriginAnyTrip(p) ==
    IF Len(p) > 1 /\ p[1].stop_id = p[2].stop_id
    THEN SubSeq(p, 2, Len(p))
    ELSE p

\* The stripping of every first node
StripFirst(p) ==
    IF Len(p) > 1 THEN SubSeq(p, 2, Len(p)) ELSE p

\* Transfer at the origin: drop the first node when the first hop changes trip
\* at the same stop
StripOrigin(p) ==
    IF Len(p) > 1 /\ p[1].stop_id = p[2].stop_id /\ p[1].trip_id # p[2].trip_id
    THEN SubSeq(p, 2, Len(p))
    ELSE p

\* The clean-up that keeps every node
KeepNode(cleaned_path, p, i) == Append(cleaned_path, p[i])

\* The clean-up without its look-ahead: every node at the stop of the last
\* kept node is skipped
CleanNodeNoLookAhead(cleaned_path, p, i) ==
    IF p[i].stop_id = cleaned_path[Len(cleaned_path)].stop_id
    THEN cleaned_path
    ELSE Append(cleaned_path, p[i])

\* One turn of the clean-up loop: the node p[i] is skipped when it is at the
\* stop of the last kept node and the node after it is at that stop too
CleanNode(cleaned_path, p, i) ==
    IF /\ p[i].stop_id = cleaned_path[Len(cleaned_path)].stop_id
       /\ i + 1 <= Len(p)
       /\ p[i + 1].stop_id = p[i].stop_id
    THEN cleaned_path
    ELSE Append(cleaned_path, p[i])

\* The clean-up loop
CleanPath(p) ==
    IF Len(p) > 1
    THEN LET loop[i \in 1..Len(p)] ==
                 IF i = 1 THEN <<p[1]>> ELSE CleanNode(loop[i - 1], p, i)
         IN  loop[Len(p)]
    ELSE p

\* The node sequence the journey is emitted from
EmittedPath(p) == CleanPath(StripOrigin(p))

\* round(x / 60, 1) in tenths of a minute. The model's times are whole minutes,
\* so x / 60 has at most one decimal and the rounding is exact
RoundTenths(secs) ==
    IF secs >= 0 THEN (secs * 10 + 30) \div 60 ELSE -((-secs * 10 + 30) \div 60)

\* total_travel_minutes, in tenths: "... if start_secs else 0"
total_travel_minutes(start_secs, final_arrival_secs) ==
    IF start_secs # 0 THEN RoundTenths(final_arrival_secs - start_secs) ELSE 0

\* is_transfer decided on the stops: a record at the stop of the one before it
IsTransferSameStop(p, i) == i > 1 /\ p[i].stop_id = p[i - 1].stop_id

\* is_transfer of the i-th emitted node
IsTransfer(p, i) == i > 1 /\ p[i].trip_id # p[i - 1].trip_id

StopInfo(p, i) ==
    [stop_id |-> p[i].stop_id,
     arrival_time |-> seconds_to_time(p[i].arrival_time),
     departure_time |-> seconds_to_time(p[i].departure_time),
     trip_id |-> p[i].trip_id,
     route_id |-> p[i].route_id,
     route_name |-> p[i].route_name,
     is_transfer |-> IsTransfer(p, i),
     note |-> IF IsTransfer(p, i) THEN "Transfer" ELSE ""]

TransferAt(p, i) ==
    [stop_id |-> p[i].stop_id,
     from_trip |-> p[i - 1].trip_id,
     to_trip |-> p[i].trip_id,
     from_route |-> p[i - 1].route_id,
     to_route |-> p[i].route_id]

\* The transfers list: one entry per emitted node with is_transfer
Transfers(p) ==
    LET loop[i \in 0..Len(p)] ==
            IF i = 0 THEN <<>>
            ELSE IF IsTransfer(p, i) THEN Append(loop[i - 1], TransferAt(p, i))
            ELSE loop[i - 1]
    IN  loop[Len(p)]

NoResult ==
    [type |-> "none", error |-> "", success |-> TRUE,
     origin |-> "", destination |-> "", start_time |-> <<>>, date |-> <<>>,
     arrival_time |-> <<>>, total_travel_minutes |-> 0,
     stop_count |-> 0, transfer_count |-> 0,
     transfers |-> <<>>, detailed_route |-> <<>>, note |-> ""]

\* An error object; the text is the prefix followed by the values it names
ErrorObject(prefix, origin, dest, start, d, success) ==
    [NoResult EXCEPT !.type = "error", !.error = prefix, !.success = success,
                     !.origin = origin, !.destination = dest,
                     !.start_time = start, !.date = d]

EmitRaises(p) ==
    \E i \in 1..Len(p) :
        \/ seconds_to_time_raises(p[i].arrival_time)
        \/ seconds_to_time_raises(p[i].departure_time)

path_to_detailed_route_raises(p0) == EmitRaises(EmittedPath(p0))

\* The journey record made of the emitted node sequence p
Journey(p, transfers, origin, dest, start, d) ==
    [NoResult EXCEPT
        !.type = "journey",
        !.origin = origin,
        !.destination = dest,
        !.start_time = start,
        !.date = d,
        !.arrival_time = seconds_to_time(p[Len(p)].arrival_time),
        !.total_travel_minutes =
            total_travel_minutes(p[1].departure_time, p[Len(p)].arrival_time),
        !.stop_count = Len(p),
        !.transfer_count = Len(transfers),
        !.transfers = transfers,
        !.detailed_route = [i \in 1..Len(p) |-> StopInfo(p, i)]]

Emit(p, origin, dest, start, d) == Journey(p, Transfers(p), origin, dest, start, d)

path_to_detailed_route(p0, origin, dest, start, d) ==
    IF p0 = <<>>
    THEN ErrorObject("No path found", "", "", <<>>, <<>>, TRUE)
    ELSE Emit(EmittedPath(p0), origin, dest, start, d)

----------------------------------------------------------------------------
(* routing.py: earliest_arrival_routing, compute_route, getRoute *)

\* The Python value None passed as a stop id
NoneId == "None"

\* date.replace("-", "")
NormaliseDate(d) == SelectSeq(d, LAMBDA piece : piece # "-")

Unbuilt == [built |-> FALSE, nodes |-> <<>>, edges |-> {}]

\* What getRoute makes of an exception: {"error": str(e), "success": False}
Raised(text) ==
    ErrorObject(text, origin_id, dest_id, start_time, date, FALSE)

Return(r) ==
    /\ result' = r
    /\ pc' = "done"

\* compute_route up to the call of build_transit_graph: the four loads, the
\* None checks, the identical-endpoint short-circuit, then
\* earliest_arrival_routing's parse of start_time
ComputeRoute ==
    /\ pc = "call"
    /\ UNCHANGED <<clock, feed, query, G, stop_departures, path>>
    /\ IF load_stops_raises(files) \/ "stop_times.csv" \notin files
         THEN Return(Raised("[Errno 2] No such file or directory"))
       ELSE IF load_stop_times_by_trip_raises(files, stop_times_csv)
         THEN Return(Raised("invalid literal for int() with base 10"))
       ELSE IF origin_id = NoneId
         THEN Return(Raised("Origin stop not found"))
       ELSE IF dest_id = NoneId
         THEN Return(Raised("Destination stop not found"))
       ELSE IF origin_id = dest_id
         THEN IF origin_id \notin load_stops(stops_csv)
              THEN Return(Raised("'"))
              ELSE Return([NoResult EXCEPT
                              !.type = "trivial",
                              !.origin = origin_id,
                              !.destination = dest_id,
                              !.start_time = start_time,
                              !.total_travel_minutes = 0,
                              !.detailed_route =
                                  << [stop_id |-> origin_id,
                                      arrival_time |-> start_time,
                                      departure_time |-> start_time,
                                      trip_id |-> "", route_id |-> "", route_name |-> "",
                                      is_transfer |-> FALSE,
                                      note |-> "Origin equals destination"] >>,
                              !.note = "Origin equals destination"])
       ELSE IF parse_time_to_seconds(start_time) = None
         THEN Return(ErrorObject("Invalid start_time", "", "", start_time, <<>>, TRUE))
       ELSE /\ pc' = "build"
            /\ UNCHANGED result

\* What follows the call of build_transit_graph, b being what it made
Built(b) ==
    IF b.raises
    THEN /\ Return(Raised("'"))
         /\ UNCHANGED <<G, stop_departures>>
    ELSE /\ G' = b.G
         /\ stop_departures' = b.stop_departures
         /\ pc' = "search"
         /\ UNCHANGED result

\* earliest_arrival_routing: G, stop_departures = build_transit_graph(...)
BuildGraph ==
    /\ pc = "build"
    /\ UNCHANGED <<clock, feed, query, path>>
    /\ Built(build_transit_graph(load_stops(stops_csv),
                                 load_stop_times_by_trip(stop_times_csv),
                                 load_routes_info(files),
                                 load_trips_info(files),
                                 parse_time_to_seconds(start_time),
                                 NormaliseDate(date),
                                 default_calendar))

\* What follows the call of find_earliest_arrival_path, paths being what it
\* may return
Found(paths) ==
    IF paths = {}
    THEN /\ Return(ErrorObject("No route found from", origin_id, dest_id,
                               start_time, NormaliseDate(date), TRUE))
         /\ UNCHANGED path
    ELSE /\ path' \in paths
         /\ pc' = "route"
         /\ UNCHANGED result

\* earliest_arrival_routing: path = find_earliest_arrival_path(...)
FindPath ==
    /\ pc = "search"
    /\ UNCHANGED <<clock, feed, query, G, stop_departures>>
    /\ Found(find_earliest_arrival_path(G, stop_departures, origin_id, dest_id,
                                        parse_time_to_seconds(start_time)))

\* earliest_arrival_routing: return path_to_detailed_route(...)
DetailRoute ==
    /\ pc = "route"
    /\ UNCHANGED <<clock, feed, query, G, stop_departures, path>>
    /\ IF path_to_detailed_route_raises(path)
       THEN Return(Raised("hour must be in 0..23"))
       ELSE Return(path_to_detailed_route(path, origin_id, dest_id, start_time,
                                          NormaliseDate(date)))

----------------------------------------------------------------------------
(* The inputs: feeds and queries *)

\* The size of an input: the rows of stop_times.csv, plus one when their
\* stop_sequence column is not plainly ascending, plus two for every other
\* input that departs from the plain case
MaxSize == 4

Minute(m) == <<0, m, 0>>

Absent == <<>>

\* The rows a stop_times.csv is made of: stop, arrival_time, departure_time.
\* A plain row at the origin and at the destination; a dwelling row; a row
\* departing before it arrives; a vehicle that arrived at minute 0 and leaves
\* at minute 2; a row at 00:00:00; a row without an arrival time
RowLib ==
    { <<"A", Minute(1), Minute(1)>>,
      <<"A", Minute(2), Minute(1)>>,
      <<"A", Minute(0), Minute(0)>>,
      <<"B", Minute(1), Minute(2)>>,
      <<"B", Absent,    Minute(2)>>,
      <<"C", Minute(2), Minute(2)>>,
      <<"C", Minute(0), Minute(2)>> }

\* How the stop_sequence column is filled: in file order, in reverse order,
\* or in file order with a last row that is no numeral
Numberings == {"ascending", "descending", "unparsable"}

SequenceText(numbering, i, n) ==
    CASE numbering = "ascending" -> <<i>>
      [] numbering = "descending" -> <<n + 1 - i>>
      [] OTHER -> IF i = n THEN <<>> ELSE <<i>>

\* A stop_times.csv of n rows: the first k belong to trip T1, the others to T2
StopTimesCsv(n, k, pick, numbering) ==
    [i \in 1..n |->
        [trip_id |-> IF i <= k THEN "T1" ELSE "T2",
         stop_id |-> pick[i][1],
         stop_sequence |-> SequenceText(numbering, i, n),
         arrival_time |-> pick[i][2],
         departure_time |-> pick[i][3]]]

AllFiles == {"stops.csv", "stop_times.csv", "routes.csv", "trips.csv", "calendar_dates.csv"}

Date1 == <<"2025", "01", "01">>

\* The plain case of each input, and what else it may be
Choices ==
    [origin     |-> <<"A", "X", NoneId>>,
     dest       |-> <<"C", "A", "X", NoneId>>,
     start      |-> <<Minute(1), Minute(0), Minute(2), Absent, <<24, 0, 0>> >>,
     date       |-> <<Date1, <<"2025", "-", "01", "-", "01">>, <<"2025", "01", "02">>,
                      <<"2025", "01", "03">> >>,
     missing    |-> <<{}, {"routes.csv"}, {"trips.csv"}, {"calendar_dates.csv"}>>,
     dir        |-> <<DATA_DIR_DEFAULT, "other/data">>,
     catalogue  |-> <<{"A", "B", "C"}, {"A", "C"}>>,
     numbering  |-> <<"ascending", "descending", "unparsable">>]

\* A choice of one index per input; index 1 is the plain case
Scenarios ==
    [origin : 1..Len(Choices.origin), dest : 1..Len(Choices.dest),
     start : 1..Len(Choices.start), date : 1..Len(Choices.date),
     missing : 1..Len(Choices.missing), dir : 1..Len(Choices.dir),
     catalogue : 1..Len(Choices.catalogue), numbering : 1..Len(Choices.numbering)]

Departures(sc) == Cardinality({f \in DOMAIN sc \ {"numbering"} : sc[f] # 1})

Size(n, sc) == n + (IF sc.numbering # 1 THEN 1 ELSE 0) + 2 * Departures(sc)

\* A feed and a query of at most MaxSize
BoundedInit ==
    \E n \in 0..MaxSize :
    \E sc \in {x \in Scenarios : Size(n, x) <= MaxSize} :
    \E k \in 0..n :
    \E pick \in [1..n -> RowLib] :
        /\ data_dir = Choices.dir[sc.dir]
        /\ stops_csv = Choices.catalogue[sc.catalogue]
        /\ stop_times_csv = StopTimesCsv(n, k, pick, Choices.numbering[sc.numbering])
        /\ files = AllFiles \ Choices.missing[sc.missing]
        /\ default_calendar \in
              IF data_dir = DATA_DIR_DEFAULT
              THEN {"calendar_dates.csv" \in files}
              ELSE BOOLEAN
        /\ origin_id = Choices.origin[sc.origin]
        /\ dest_id = Choices.dest[sc.dest]
        /\ start_time = Choices.start[sc.start]
        /\ date = Choices.date[sc.date]
        /\ pc = "call"
        /\ G = Unbuilt
        /\ stop_departures = <<>>
        /\ path = <<>>
        /\ result = NoResult
        /\ seconds = None
        /\ time_string = <<>>
        /\ parsed = None

\* stop_times.csv of Feed A. A row listing one time has it as arrival and as
\* departure
FeedAStopTimes ==
    << [trip_id |-> "T1", stop_id |-> "A", stop_sequence |-> <<1>>,
        arrival_time |-> <<8, 0, 0>>, departure_time |-> <<8, 0, 0>>],
       [trip_id |-> "T1", stop_id |-> "B", stop_sequence |-> <<2>>,
        arrival_time |-> <<8, 30, 0>>, departure_time |-> <<8, 31, 0>>],
       [trip_id |-> "T1", stop_id |-> "C", stop_sequence |-> <<3>>,
        arrival_time |-> <<9, 15, 0>>, departure_time |-> <<9, 15, 0>>],
       [trip_id |-> "T2", stop_id |-> "B", stop_sequence |-> <<1>>,
        arrival_time |-> <<8, 45, 0>>, departure_time |-> <<8, 45, 0>>],
       [trip_id |-> "T2", stop_id |-> "D", stop_sequence |-> <<2>>,
        arrival_time |-> <<9, 10, 0>>, departure_time |-> <<9, 10, 0>>] >>

\* getRoute(A, D, "08:00:00", "20250101") on Feed A
FeedAInit ==
    /\ data_dir = DATA_DIR_DEFAULT
    /\ stops_csv = FeedAStops
    /\ stop_times_csv = FeedAStopTimes
    /\ files = AllFiles
    /\ default_calendar = TRUE
    /\ origin_id = "A"
    /\ dest_id = "D"
    /\ start_time = <<8, 0, 0>>
    /\ date = Date1
    /\ pc = "call"
    /\ G = Unbuilt
    /\ stop_departures = <<>>
    /\ path = <<>>
    /\ result = NoResult
    /\ seconds = None
    /\ time_string = <<>>
    /\ parsed = None

\* A call with the plain feed directory and date, on the given stop_times.csv
PlainCall(rows, origin, dest, start) ==
    /\ data_dir = DATA_DIR_DEFAULT
    /\ stops_csv = {"A", "B", "C"}
    /\ stop_times_csv = rows
    /\ files = AllFiles
    /\ default_calendar = TRUE
    /\ origin_id = origin
    /\ dest_id = dest
    /\ start_time = start
    /\ date = Date1
    /\ pc = "call"
    /\ G = Unbuilt
    /\ stop_departures = <<>>
    /\ path = <<>>
    /\ result = NoResult
    /\ seconds = None
    /\ time_string = <<>>
    /\ parsed = None

\* Rows arriving at minute 2, at A and at C, that depart at once or that are
\* listed with a departure before their arrival
LateRows ==
    { <<"A", Minute(2), Minute(2)>>,
      <<"A", Minute(2), Minute(1)>>,
      <<"C", Minute(2), Minute(2)>>,
      <<"C", Minute(2), Minute(1)>> }

\* A feed of at most MaxSize such rows, with the plain query
LateInit ==
    \E n \in 0..MaxSize :
    \E k \in 0..n :
    \E pick \in [1..n -> LateRows] :
        PlainCall(StopTimesCsv(n, k, pick, "ascending"), "A", "C", Minute(1))

\* The most visits trip T1 pays to the origin in a busy feed
MaxVisits == 12

\* The most rows trip T2 spends waiting at the origin after its first one
MaxDwell == 2

\* A busy origin: trip T1 calls m times at A, a minute apart, its rows being
\* in the order of their times or in the reverse order; trip T2 calls at A a
\* minute after the last of these, stays for dwell more rows a minute apart,
\* and reaches C a minute later
BusyStopTimes(m, order, dwell) ==
    [i \in 1..(m + dwell + 2) |->
        IF i <= m
        THEN [trip_id |-> "T1", stop_id |-> "A", stop_sequence |-> <<i>>,
              arrival_time |-> Minute(IF order = "ascending" THEN i ELSE m + 1 - i),
              departure_time |-> Minute(IF order = "ascending" THEN i ELSE m + 1 - i)]
        ELSE [trip_id |-> "T2", stop_id |-> IF i = m + dwell + 2 THEN "C" ELSE "A",
              stop_sequence |-> <<i - m>>,
              arrival_time |-> Minute(i),
              departure_time |-> Minute(i)]]

BusyInit ==
    \E m \in 0..MaxVisits :
    \E order \in {"ascending", "descending"} :
    \E dwell \in 0..MaxDwell :
        PlainCall(BusyStopTimes(m, order, dwell), "A", "C", Minute(1))

Init ==
    \/ BoundedInit
    \/ FeedAInit
    \/ LateInit
    \/ BusyInit

Next ==
    \/ ComputeRoute
    \/ BuildGraph
    \/ FindPath
    \/ DetailRoute

Spec == Init /\ [][Next]_vars

----------------------------------------------------------------------------
(* The two time functions on their own: seconds_to_time followed by
   parse_time_to_seconds, and parse_time_to_seconds of a given string *)

\* The largest hour field of the strings given to parse_time_to_seconds
MaxHour == 25

\* No call of getRoute is under way
NoCall ==
    /\ data_dir = DATA_DIR_DEFAULT
    /\ stops_csv = {}
    /\ stop_times_csv = <<>>
    /\ files = AllFiles
    /\ default_calendar = TRUE
    /\ origin_id = NoneId
    /\ dest_id = NoneId
    /\ start_time = <<>>
    /\ date = <<>>
    /\ G = Unbuilt
    /\ stop_departures = <<>>
    /\ path = <<>>
    /\ result = NoResult

\* Either an integer of [0, 86400) to format, or a string HH:MM:SS to parse
TimeInit ==
    /\ NoCall
    /\ parsed = None
    /\ \/ /\ pc = "format"
          /\ seconds \in 0..(24 * 3600 - 1)
          /\ time_string = <<>>
       \/ /\ pc = "parse"
          /\ seconds = None
          /\ \E h \in 0..MaxHour : \E m \in 0..59 : \E sec \in 0..59 :
                 time_string = isoformat(<<h, m, sec>>)

\* seconds_to_time(seconds)
FormatTime ==
    /\ pc = "format"
    /\ ~seconds_to_time_raises(seconds)
    /\ time_string' = isoformat(seconds_to_time(seconds))
    /\ pc' = "parse"
    /\ UNCHANGED <<feed, query, G, stop_departures, path, result, seconds, parsed>>

\* parse_time_to_seconds(time_string)
ParseTime ==
    /\ pc = "parse"
    /\ parsed' = parse_time_to_seconds(TimeFields(time_string))
    /\ pc' = "parsed"
    /\ UNCHANGED <<feed, query, G, stop_departures, path, result, seconds, time_string>>

TimeNext ==
    \/ FormatTime
    \/ ParseTime

TimeSpec == TimeInit /\ [][TimeNext]_vars

----------------------------------------------------------------------------
(* Vocabulary of the properties *)

Done == pc = "done"

Catalogue == load_stops(stops_csv)

T0 == parse_time_to_seconds(start_time)

\* The emitted node sequence n0..nk of a returned journey
Emitted == EmittedPath(path)

\* The start nodes the search considers: origin nodes departing at or after
\* T0, the first MAX_STARTS of them
ConsideredStarts ==
    {valid_starts(stop_departures, origin_id, T0)[i] :
        i \in 1..max_starts_to_try(valid_starts(stop_departures, origin_id, T0))}

\* The destination nodes reachable in G from a considered start node
ReachableTargets ==
    {n \in Range(dest_nodes(stop_departures, dest_id)) :
        \E st \in ConsideredStarts : n \in Lengths(G.edges, st)}

ErrorPrefixes ==
    {"Invalid start_time", "Origin stop not found",
     "Destination stop not found", "No route found from"}

----------------------------------------------------------------------------
(* C1: the arrival_time of a returned journey is the least arrival_secs of the
   destination nodes reachable in the built graph from a considered start. *)
C1_EarliestArrival ==
    result.type = "journey" =>
        \E n \in ReachableTargets :
            /\ result.arrival_time = seconds_to_time(n.arrival_time)
            /\ \A m \in ReachableTargets : n.arrival_time <= m.arrival_time

\* A journey was returned although a later-arriving destination node was
\* reachable too
C1_Witness ==
    /\ result.type = "journey"
    /\ \E n, m \in ReachableTargets : n.arrival_time < m.arrival_time

(* C2: along the emitted nodes of a returned journey the times departure(n0),
   arrival(n1), departure(n1), ..., arrival(nk) never decrease. *)
C2_MonotoneTimes ==
    result.type = "journey" =>
        /\ \A i \in 1..(Len(Emitted) - 1) :
               Emitted[i].departure_time <= Emitted[i + 1].arrival_time
        /\ \A i \in 2..(Len(Emitted) - 1) :
               Emitted[i].arrival_time <= Emitted[i].departure_time

(* C3: adjacent emitted stops of different trips are at the same stop, and
   the second departs no earlier than the first arrives. *)
C3_TransferFeasible ==
    result.type = "journey" =>
        \A i \in 1..(Len(Emitted) - 1) :
            Emitted[i].trip_id # Emitted[i + 1].trip_id =>
                /\ Emitted[i].stop_id = Emitted[i + 1].stop_id
                /\ Emitted[i + 1].departure_time >= Emitted[i].arrival_time

(* C4: adjacent emitted stops of the same trip are consecutive rows of that
   trip in the stop-time table ordered by stop_sequence. *)
C4_TripContinuity ==
    result.type = "journey" =>
        \A i \in 1..(Len(Emitted) - 1) :
            Emitted[i].trip_id = Emitted[i + 1].trip_id =>
                Emitted[i + 1].stop_sequence = Emitted[i].stop_sequence + 1

(* C5: an origin outside the catalogue yields "Origin stop not found"; an
   origin inside it with a destination outside it yields "Destination stop not
   found", before the identical-endpoint short-circuit and the search. *)
C5_StopNotFound ==
    Done =>
        /\ origin_id \notin Catalogue =>
               result.type = "error" /\ result.error = "Origin stop not found"
        /\ (origin_id \in Catalogue /\ dest_id \notin Catalogue) =>
               result.type = "error" /\ result.error = "Destination stop not found"

(* C6: getRoute(X, X, T, D) for a stop X of the catalogue is the trivial
   journey, whatever the feed holds. *)
C6_IdenticalEndpoints ==
    (Done /\ origin_id = dest_id /\ origin_id \in Catalogue) =>
        /\ result.type = "trivial"
        /\ result.total_travel_minutes = 0
        /\ Len(result.detailed_route) = 1
        /\ result.detailed_route[1].stop_id = origin_id
        /\ result.detailed_route[1].arrival_time = start_time
        /\ result.detailed_route[1].departure_time = start_time
        /\ result.detailed_route[1].note = "Origin equals destination"

(* C7: the destinations for which a journey is returned are the same without
   routes.csv, without trips.csv and without calendar_dates.csv as with all
   five tables. *)
BuildWith(fs, default_cal) ==
    build_transit_graph(Catalogue, load_stop_times_by_trip(stop_times_csv),
                        load_routes_info(fs), load_trips_info(fs),
                        T0, NormaliseDate(date), default_cal)

\* Removing calendar_dates.csv from data_dir removes the calendar that is
\* read only when data_dir is DATA_DIR_DEFAULT
BuildWithout(f) ==
    BuildWith(AllFiles \ {f},
              IF f = "calendar_dates.csv" /\ data_dir = DATA_DIR_DEFAULT
              THEN FALSE ELSE default_calendar)

Destinations(b) ==
    {d \in Catalogue \ {origin_id} :
        /\ ~b.raises
        /\ find_earliest_arrival_path(b.G, b.stop_departures, origin_id, d, T0) # {}}

C7_MissingTableTolerance ==
    (pc = "search" /\ files = AllFiles) =>
        \A f \in {"routes.csv", "trips.csv", "calendar_dates.csv"} :
            Destinations(BuildWithout(f)) =
                Destinations([G |-> G, stop_departures |-> stop_departures,
                              raises |-> FALSE])

(* C8: with distinct endpoints of the catalogue and a well-formed start time,
   when no service is active on the date, or no origin node departs at or
   after T0, or no destination node is reachable from a considered start, the
   result is the error "No route found from" naming origin, destination,
   start time and normalised date. *)
NoActiveService ==
    active_service_ids("calendar_dates.csv" \in files, NormaliseDate(date)) = {}

C8_NoRouteError ==
    ( /\ Done
      /\ origin_id # dest_id
      /\ origin_id \in Catalogue
      /\ dest_id \in Catalogue
      /\ T0 # None
      /\ (NoActiveService \/ ConsideredStarts = {} \/ ReachableTargets = {}) ) =>
        result = ErrorObject("No route found from", origin_id, dest_id,
                             start_time, NormaliseDate(date), TRUE)

(* C9: with distinct endpoints and a start_time that does not parse, the
   result is the error "Invalid start_time" and no graph or index was built. *)
C9_InvalidStartTime ==
    (Done /\ origin_id # dest_id /\ T0 = None) =>
        /\ result.type = "error"
        /\ result.error = "Invalid start_time"
        /\ G = Unbuilt
        /\ stop_departures = <<>>

(* C10: every result is a journey record or an object with an error string,
   and every error string begins with "Invalid start_time", "Origin stop not
   found", "Destination stop not found" or "No route found from". *)
C10_ResultShapes ==
    Done =>
        /\ result.type \in {"journey", "trivial", "error"}
        /\ result.type = "error" => result.error \in ErrorPrefixes

(* C11: parse_time_to_seconds of a well-formed string HH:MM:SS is
   H*3600 + M*60 + S for every hour H >= 0, hours of 24 and more included. *)
C11_HoursPastMidnight ==
    pc = "parsed" =>
        LET t == TimeFields(time_string)
        IN  (t # <<>> /\ t[2] \in 0..59 /\ t[3] \in 0..59) =>
                parsed = t[1] * 3600 + t[2] * 60 + t[3]

(* C12: for every integer s of [0, 86400), parse_time_to_seconds of
   seconds_to_time(s) is s, and seconds_to_time(s) is a zero-padded HH:MM:SS
   string. *)
C12_RoundTrip ==
    (pc = "parsed" /\ seconds # None) =>
        /\ parsed = seconds
        /\ Len(time_string) = 3
        /\ \A i \in 1..3 :
               /\ Len(time_string[i]) = 2
               /\ \A k \in 1..2 : time_string[i][k] \in 0..9

\* 23:59:59 was formatted and parsed back
C12_Witness ==
    /\ pc = "parsed"
    /\ seconds = 24 * 3600 - 1
    /\ time_string = <<<<2, 3>>, <<5, 9>>, <<5, 9>>>>
    /\ parsed = seconds

(* C13: the trips that receive graph nodes are exactly the trips whose
   service is active on the date and that have a stop-time row whose departure
   time is defined and >= T0, a departure of 00:00:00 counting as defined. *)
TripsWithNodes == {n.trip_id : n \in Range(G.nodes)}

ServiceActive(trip_id) ==
    /\ trip_id \in DOMAIN load_trips_info(files)
    /\ load_trips_info(files)[trip_id].service_id
           \in active_service_ids("calendar_dates.csv" \in files, NormaliseDate(date))

DepartsFrom(row, start_time_secs) ==
    /\ parse_time_to_seconds(row.departure_time) # None
    /\ parse_time_to_seconds(row.departure_time) >= start_time_secs

ActiveTrips ==
    {r.trip_id : r \in {x \in Range(stop_times_csv) :
                            ServiceActive(x.trip_id) /\ DepartsFrom(x, T0)}}

C13_ActiveTrips ==
    G.built => TripsWithNodes = ActiveTrips

(* C14: a stop-time row whose stop_sequence is no integer never makes the
   query fail: the row is ordered as if its sequence were 0, and the result is
   the journey, or the "No route found" error, of the feed read that way. *)
HasUnparsableSequence ==
    \E i \in 1..Len(stop_times_csv) : int_raises(stop_times_csv[i].stop_sequence)

\* stop_times.csv with every unparsable stop_sequence read as 0
SequenceDefaulted ==
    [i \in 1..Len(stop_times_csv) |->
        IF int_raises(stop_times_csv[i].stop_sequence)
        THEN [stop_times_csv[i] EXCEPT !.stop_sequence = <<0>>]
        ELSE stop_times_csv[i]]

ResultsOf(paths) ==
    IF paths = {}
    THEN {ErrorObject("No route found from", origin_id, dest_id,
                      start_time, NormaliseDate(date), TRUE)}
    ELSE {path_to_detailed_route(p, origin_id, dest_id, start_time,
                                 NormaliseDate(date)) : p \in paths}

\* What earliest_arrival_routing may return once the graph b is built
RoutingOf(b) ==
    IF b.raises THEN {Raised("'")}
    ELSE ResultsOf(find_earliest_arrival_path(b.G, b.stop_departures,
                                              origin_id, dest_id, T0))

C14_UnparsableSequence ==
    (Done /\ HasUnparsableSequence) =>
        /\ result.error # "invalid literal for int() with base 10"
        /\ (origin_id # dest_id /\ origin_id # NoneId /\ dest_id # NoneId /\ T0 # None) =>
               result \in RoutingOf(
                   build_transit_graph(Catalogue,
                                       load_stop_times_by_trip(SequenceDefaulted),
                                       load_routes_info(files), load_trips_info(files),
                                       T0, NormaliseDate(date), default_calendar))

(* C15: on Feed A, getRoute(A, D, "08:00:00", "20250101") returns a journey
   with arrival_time "09:10:00", total_travel_minutes 70.0, transfer_count 1
   and a single transfer at stop B from trip T1 to trip T2. *)
FeedAQuery ==
    /\ stops_csv = FeedAStops
    /\ stop_times_csv = FeedAStopTimes
    /\ query = <<"A", "D", <<8, 0, 0>>, Date1>>

\* total_travel_minutes is held in tenths of a minute: 700 is 70.0
C15_FeedA ==
    (Done /\ FeedAQuery) =>
        /\ result.type = "journey"
        /\ result.arrival_time = <<9, 10, 0>>
        /\ result.total_travel_minutes = 700
        /\ result.transfer_count = 1
        /\ Len(result.transfers) = 1
        /\ result.transfers[1].stop_id = "B"
        /\ result.transfers[1].from_trip = "T1"
        /\ result.transfers[1].to_trip = "T2"

\* The call on Feed A has returned
C15_Witness == Done /\ FeedAQuery /\ result.type = "journey"

(* C16: every in-vehicle edge goes from a node (s, t, i) to the node
   (s', t, i+1) of the same trip at the next position of the trip's stop-time
   sequence, with weight arrival(i+1) - departure(i) >= 0; a row without an
   arrival or a departure breaks the chain. *)
InVehicleEdges == {e \in G.edges : e.edge_type = "in_vehicle"}

C16_InVehicleEdges ==
    G.built =>
        \A e \in InVehicleEdges :
            /\ e.to.trip_id = e.from.trip_id
            /\ e.to.stop_sequence = e.from.stop_sequence + 1
            /\ e.weight = e.to.arrival_time - e.from.departure_time
            /\ e.weight >= 0

(* C17: every transfer edge A -> B joins two nodes of the same stop and of
   different trips, has departure(B) >= arrival(A) and weight exactly
   (departure(B) - arrival(A)) + 600; no node has a transfer edge to itself or
   to a node of its own trip. *)
TransferEdgesOfG == {e \in G.edges : e.edge_type = "transfer"}

Position(seq, x) == CHOOSE i \in 1..Len(seq) : seq[i] = x

OutboundListSorted(deps) ==
    \A i, j \in 1..Len(deps) :
        i < j =>
            \/ deps[i].departure_time < deps[j].departure_time
            \/ /\ deps[i].departure_time = deps[j].departure_time
               /\ Position(G.nodes, deps[i]) < Position(G.nodes, deps[j])

C18_TransferFanOut ==
    G.built =>
        \A st \in DOMAIN stop_departures :
            /\ OutboundListSorted(stop_departures[st])
            /\ \A i \in 1..Len(stop_departures[st]) :
                   LET out == {e \in TransferEdgesOfG : e.from = stop_departures[st][i]}
                   IN  /\ Cardinality(out) <= 2
                       /\ \A e \in out :
                              \E j \in {i + 1, i + 2} :
                                  /\ j <= Len(stop_departures[st])
                                  /\ stop_departures[st][j] = e.to

\* A node with a feasible connection three entries further in its stop's
\* list, which got no transfer edge
C18_Witness ==
    /\ G.built
    /\ \E st \in DOMAIN stop_departures :
           \E i \in 1..(Len(stop_departures[st]) - 3) :
               LET a == stop_departures[st][i]
                   b == stop_departures[st][i + 3]
               IN  /\ a.trip_id # b.trip_id
                   /\ b.departure_time >= a.arrival_time
                   /\ ~\E e \in TransferEdgesOfG : e.from = a /\ e.to = b

(* C19: for every node A at a stop, if a node of another trip at that stop
   departs at or after arrival(A), then the earliest-departing such node is
   reachable from A along transfer edges, also when A's vehicle dwells and
   the connecting trip departs between A's arrival and A's departure. *)
Connections(a) ==
    {b \in Range(G.nodes) :
        /\ b.stop_id = a.stop_id
        /\ b.trip_id # a.trip_id
        /\ b.departure_time >= a.arrival_time}

C19_NextConnection ==
    G.built =>
        \A a \in Range(G.nodes) :
            Connections(a) # {} =>
                \E b \in Connections(a) :
                    /\ \A c \in Connections(a) : b.departure_time <= c.departure_time
                    /\ b \in Lengths(TransferEdgesOfG, a)

(* C20: every node of every graph built has arrival_secs <= departure_secs,
   also when a row's arrival_time is later than its departure_time. *)
C20_ArrivalBeforeDeparture ==
    G.built =>
        \A n \in Range(G.nodes) : n.arrival_time <= n.departure_time

(* C21: every graph built is acyclic and every edge has a non-negative
   weight, for every feed, zero-duration hops, zero dwell and equal departure
   times at one stop included. *)
Acyclic(edges) == \A e \in edges : e.from \notin Lengths(edges, e.to)

C21_AcyclicGraph ==
    G.built =>
        /\ Acyclic(G.edges)
        /\ \A e \in G.edges : e.weight >= 0

(* C22: the search runs from at most 10 start nodes, each a node of the
   origin stop departing at or after T0, taken from the front of the origin's
   outbound list in its sorted order; when there are more than 10, the later
   ones never contribute a path. *)
OriginStarts == valid_starts(stop_departures, origin_id, T0)

FirstTenStarts ==
    {OriginStarts[i] : i \in {j \in 1..10 : j <= Len(OriginStarts)}}

ReachedFrom(starts) ==
    {n \in Range(dest_nodes(stop_departures, dest_id)) :
        \E st \in starts : n \in Lengths(G.edges, st)}

C22_TenStarts ==
    /\ path # <<>> =>
           /\ path[1] \in FirstTenStarts
           /\ path[1].stop_id = origin_id
           /\ path[1].departure_time >= T0
    /\ (Done /\ G.built /\ ReachedFrom(FirstTenStarts) = {}) =>
           result.type = "error" /\ path = <<>>

\* More than 10 valid starts, the destination reachable from a later one only,
\* and no route returned
C22_Witness ==
    /\ Done
    /\ G.built
    /\ Len(OriginStarts) > 10
    /\ ReachedFrom(FirstTenStarts) = {}
    /\ ReachedFrom(Range(OriginStarts)) # {}
    /\ result.error = "No route found from"

(* C23: the emitted node sequence is the search path P without n0 when
   |P| >= 2, stop(n0) = stop(n1) and trip(n0) # trip(n1), and then without
   each n_i whose stop is that of the last kept node and whose successor
   exists and is at the same stop; it is a subsequence of P that keeps P's
   last node. *)
ReturnedJourney == Done /\ result.type = "journey"

Remainder(P) ==
    IF Len(P) >= 2 /\ P[1].stop_id = P[2].stop_id /\ P[1].trip_id # P[2].trip_id
    THEN Tail(P)
    ELSE P

RECURSIVE Scan(_, _)
Scan(kept, rest) ==
    IF rest = <<>> THEN kept
    ELSE IF /\ kept # <<>>
            /\ Head(rest).stop_id = kept[Len(kept)].stop_id
            /\ Len(rest) >= 2
            /\ rest[2].stop_id = Head(rest).stop_id
         THEN Scan(kept, Tail(rest))
         ELSE Scan(Append(kept, Head(rest)), Tail(rest))

RECURSIVE IsSubsequence(_, _)
IsSubsequence(s, P) ==
    \/ s = <<>>
    \/ /\ P # <<>>
       /\ \/ Head(s) = Head(P) /\ IsSubsequence(Tail(s), Tail(P))
          \/ IsSubsequence(s, Tail(P))

\* What a stop record tells of the node it was emitted from
RecordOf(node) ==
    [stop_id |-> node.stop_id, trip_id |-> node.trip_id,
     route_id |-> node.route_id, route_name |-> node.route_name,
     arrival_time |-> seconds_to_time(node.arrival_time),
     departure_time |-> seconds_to_time(node.departure_time)]

RecordsOf(nodes) == [i \in 1..Len(nodes) |-> RecordOf(nodes[i])]

EmittedRecords ==
    [i \in 1..Len(result.detailed_route) |->
        [f \in DOMAIN RecordOf(path[1]) |-> result.detailed_route[i][f]]]

C23_EmittedSequence ==
    ReturnedJourney =>
        /\ EmittedRecords = RecordsOf(Scan(<<>>, Remainder(path)))
        /\ IsSubsequence(EmittedRecords, RecordsOf(path))
        /\ EmittedRecords[Len(EmittedRecords)] = RecordOf(path[Len(path)])

\* A journey whose search path lost its first node to the stripping and a later
\* node to the scan
C23_Witness ==
    /\ ReturnedJourney
    /\ Remainder(path) # path
    /\ Len(result.detailed_route) < Len(Remainder(path))

(* C24: in a returned journey a stop record has is_transfer exactly when it is
   not the first record and its trip_id differs from that of the record before
   it; each such record has one entry in transfers, with from_trip the
   previous trip and to_trip its own; transfer_count counts these records and
   stop_count counts the emitted records. *)
TransferRecords ==
    {i \in 2..Len(result.detailed_route) :
        result.detailed_route[i].trip_id # result.detailed_route[i - 1].trip_id}

\* The k-th smallest member of a set of numbers
RECURSIVE Nth(_, _)
Nth(S, k) ==
    LET least == CHOOSE x \in S : \A y \in S : x <= y
    IN  IF k = 1 THEN least ELSE Nth(S \ {least}, k - 1)

C24_Transfers ==
    ReturnedJourney =>
        /\ \A i \in 1..Len(result.detailed_route) :
               result.detailed_route[i].is_transfer <=> i \in TransferRecords
        /\ Len(result.transfers) = Cardinality(TransferRecords)
        /\ \A k \in 1..Len(result.transfers) :
               LET i == Nth(TransferRecords, k)
               IN  /\ result.transfers[k].stop_id = result.detailed_route[i].stop_id
                   /\ result.transfers[k].from_trip = result.detailed_route[i - 1].trip_id
                   /\ result.transfers[k].to_trip = result.detailed_route[i].trip_id
        /\ result.transfer_count = Cardinality(TransferRecords)
        /\ result.stop_count = Len(result.detailed_route)

\* A journey with a transfer record and a record that is none after the first
C24_Witness ==
    /\ ReturnedJourney
    /\ TransferRecords # {}
    /\ \E i \in 2..Len(result.detailed_route) : i \notin TransferRecords

(* C25: in a returned journey arrival_time is the arrival time of the last
   emitted node, and total_travel_minutes is (arrival of the last emitted node
   - departure of the first emitted node) / 60 rounded to one decimal, for
   every first departure in [0, 86399], and is never negative. *)
C25_TravelTime ==
    ReturnedJourney =>
        /\ result.arrival_time = seconds_to_time(Emitted[Len(Emitted)].arrival_time)
        /\ Emitted[1].departure_time \in 0..86399 =>
               result.total_travel_minutes =
                   RoundTenths(Emitted[Len(Emitted)].arrival_time
                                   - Emitted[1].departure_time)
        /\ result.total_travel_minutes >= 0

(* C26: the result depends only on the arguments and on the five tables of
   data_dir: the service calendar that filters the trips by date is the
   calendar_dates.csv of data_dir, whatever calendar exists in another
   directory. *)
OwnCalendar == "calendar_dates.csv" \in files

C26_OwnCalendar ==
    (Done /\ G.built) =>
        result \in RoutingOf(BuildWith(files, OwnCalendar))

(* C27: a journey returned for distinct endpoints arrives at or after the
   query's start time T0, and its first emitted stop departs at or after T0. *)
C27_NotBeforeStart ==
    (ReturnedJourney /\ origin_id # dest_id) =>
        /\ parse_time_to_seconds(result.arrival_time) >= T0
        /\ parse_time_to_seconds(result.detailed_route[1].departure_time) >= T0

(* C28: in a journey returned for distinct endpoints the first record of
   detailed_route is at the origin and the last record is at the destination,
   also when the stripping of the origin transfer or the same-stop elision
   removed nodes of the search path. *)
C28_Endpoints ==
    (ReturnedJourney /\ origin_id # dest_id) =>
        /\ result.detailed_route[1].stop_id = origin_id
        /\ result.detailed_route[Len(result.detailed_route)].stop_id = dest_id

\* A journey whose search path lost its first node, having left the origin on
\* another trip than the one it started with
C28_Witness ==
    /\ ReturnedJourney
    /\ origin_id # dest_id
    /\ Len(result.detailed_route) < Len(path)
    /\ result.detailed_route[1].trip_id # path[1].trip_id

(* C29: no returned journey has three consecutive stop records with the same
   stop_id: the clean-up reduces every run of same-stop nodes of the search
   path to at most two records. *)
SameStopRun(nodes, i, length) ==
    /\ i + length - 1 <= Len(nodes)
    /\ \A j \in i..(i + length - 1) : nodes[j].stop_id = nodes[i].stop_id

C29_NoTripleStop ==
    ReturnedJourney =>
        \A i \in 1..Len(result.detailed_route) :
            ~SameStopRun(result.detailed_route, i, 3)

\* A journey whose search path stays at one stop for four nodes, two records
\* of the run being emitted
C29_Witness ==
    /\ ReturnedJourney
    /\ \E i \in 1..Len(path) : SameStopRun(path, i, 4)
    /\ \E i \in 1..Len(result.detailed_route) :
           SameStopRun(result.detailed_route, i, 2)

====
